---- MODULE Spec2Model ----
(***************************************************************************)
(* A model of the problem-list overlay of leetcode-extend:                 *)
(*   - the Sort Controller of problemset/App.tsx (handleDisable,            *)
(*     handleEnable, the delayed navigation and the effects that follow    *)
(*     the feature flag),                                                   *)
(*   - the Row/Column Synchronizer of problemset/App.tsx (the debounced    *)
(*     row scan, the MutationObserver, the header map),                    *)
(*   - the rank-data store of global/globalSlice.ts.                       *)
(* Time is counted in milliseconds; a timer is a record holding the time   *)
(* that remains until it is due.  A due timer fires before the clock moves  *)
(* on; the events that arrive at that moment may come before or after it.  *)
(***************************************************************************)
EXTENDS Naturals, Sequences, FiniteSets, TLC

VARIABLES
    enable,      \* selectProblemRatingOption(state).enable
    pos,         \* useState<Pos>(): {} (undefined) or {[right, bottom]}
    hover,       \* hoverRankRange || hoverPopper: the Popper is mounted
    navTimers,   \* pending setTimeout callbacks of handleDisable, oldest first
    location,    \* window.location: [pathname, search]
    navLog,      \* the routerTo calls made so far, oldest first
    deactLeft,   \* handleDisable calls the behaviour may still make (the model's budget)
    thrown,      \* a handleDisable call ended in a TypeError
    rootDisplay, \* root.style.display
    tableEl,     \* the tableEl prop: which host table the overlay is given
    dom,         \* children of each host table's row group, in document order
    rows,        \* useState<HTMLDivElement[]>([]): the published rows
    observed,    \* row groups a connected MutationObserver is subscribed to
    rowTimers,   \* pending timers of the debounced handleRowChange instances
    sinceCall,   \* time since the live handleRowChange was last called (capped)
    livePubs,    \* setRows calls of the live handleRowChange since its last call
    burst,       \* calls of the live handleRowChange since its last setRows (capped)
    titleRow,    \* the cells of the header row (tableEl.children[0].children[0].children[0])
    otherRoots,  \* the memoised header map of the last render
    store,       \* state.global of the redux store
    inflight,    \* per thunk, the dispatched calls whose promise has not settled yet
    lastAction,  \* the type of the last action the store reduced
    lastRankPayload, \* the payload of that action when it is a fulfilled rank-data fetch
    questionFetches, \* dispatch(fetchAllQuestions()) calls made so far
    rankRangeWrap,   \* useState<HTMLElement | null>: {} (null) or {the div's number}
    wrapDivs,        \* the divs of the range-filter effect that are in the host DOM
    homeMounted,     \* the home-page App is mounted
    homeEffects,     \* the closures of its mount effect's runs, oldest first
    root,            \* its useState<HTMLElement>(): {} (undefined) or {the run's number}
    rankingMounted,  \* the contest-ranking App is mounted
    rankingEffects,  \* the closures of its mount effect's runs, oldest first
    titleRoot,       \* its useState<HTMLElement>(): {} or {the run's number}
    lateUpdates      \* state setters called on an instance that was unmounted

ctlVars == <<enable, pos, hover, navTimers, location, navLog, deactLeft, thrown, rootDisplay>>
syncVars == <<tableEl, dom, rows, observed, rowTimers, sinceCall, livePubs, burst>>
headVars == <<titleRow, otherRoots>>
storeVars == <<store, inflight, lastAction, lastRankPayload, questionFetches>>
wrapVars == <<rankRangeWrap, wrapDivs>>
mountVars == <<homeMounted, homeEffects, root, rankingMounted, rankingEffects, titleRoot,
               lateUpdates>>
vars == <<ctlVars, syncVars, headVars, storeVars, wrapVars, mountVars>>

(***************************************************************************)
(* Bounds of the model.                                                    *)
(***************************************************************************)
\* handleDisable calls explored in one behaviour
MaxDeactivations == 2
\* pending debounce timers explored at one time (live and stale ones)
MaxRowTimers == 2
\* children a row group holds at most
MaxRows == 2
\* cells a header row holds at most
MaxCells == 5
\* calls of one thunk in flight at one time
MaxInflight == 1
\* records a rank-data payload holds at most
MaxPayload == 2
\* calls of handleRowChange counted in one burst
MaxBurst == 2
\* divs of the range-filter effect explored in the host DOM at one time
MaxWraps == 2
\* mounts of a page component explored in one behaviour
MaxMounts == 2
\* the step of the model's clock, in milliseconds
TickMs == 250

(***************************************************************************)
(* Program constants.                                                      *)
(***************************************************************************)
\* setTimeout(..., 500) of handleDisable
SettleDelay == 500
\* debounce(..., 500) of handleRowChange
DebounceWait == 500

Min(a, b) == IF a < b THEN a ELSE b
Monus(a, b) == IF a > b THEN a - b ELSE 0

(***************************************************************************)
(* The query codec (utils.parseParams / utils.serializationPrams).         *)
(* A query string is a sequence of entries [k, v]; the structured          *)
(* QueryParams holds the optional native sorting, the optional custom      *)
(* block and the bag of all other parameters.  An optional value is a set  *)
(* with at most one element.                                               *)
(***************************************************************************)
RANKING == "RANKING"
ASCENDING == "ASCENDING"
DESCENDING == "DESCENDING"

\* the sort keys in their declared order
SORT_KEY == <<"TITLE", "ACCEPTANCE", "DIFFICULTY", "FREQUENCY">>

\* the keys of the opaque parameters, in the order the serializer writes them
OtherKeys == <<"page", "topicSlugs">>

SortSpec(orderBy, sortOrder) == [orderBy |-> orderBy, sortOrder |-> sortOrder]

Range(s) == {s[i] : i \in DOMAIN s}

HasKey(search, k) == \E i \in DOMAIN search : search[i].k = k

\* the value of the last entry of the query string with key k
LastValue(search, k) ==
    LET i == CHOOSE i \in DOMAIN search :
                 /\ search[i].k = k
                 /\ \A j \in DOMAIN search : j > i => search[j].k # k
    IN search[i].v

parseParams(search) ==
    [sorting |-> IF HasKey(search, "sorting") THEN {LastValue(search, "sorting")} ELSE {},
     custom  |-> IF HasKey(search, "custom") THEN {LastValue(search, "custom")} ELSE {},
     other   |-> [k \in {x \in Range(OtherKeys) : HasKey(search, x)} |-> LastValue(search, k)]]

\* the entries of the opaque parameters from the i-th key on
RECURSIVE OtherEntries(_, _)
OtherEntries(other, i) ==
    IF i > Len(OtherKeys) THEN <<>>
    ELSE (IF OtherKeys[i] \in DOMAIN other
          THEN <<[k |-> OtherKeys[i], v |-> other[OtherKeys[i]]]>>
          ELSE <<>>) \o OtherEntries(other, i + 1)

serializationPrams(params) ==
    OtherEntries(params.other, 1)
    \o (IF params.sorting = {} THEN <<>>
        ELSE <<[k |-> "sorting", v |-> CHOOSE s \in params.sorting : TRUE]>>)
    \o (IF params.custom = {} THEN <<>>
        ELSE <<[k |-> "custom", v |-> CHOOSE c \in params.custom : TRUE]>>)

Reverse(s) == [i \in 1..Len(s) |-> s[Len(s) + 1 - i]]

\* the native sort instructions a URL of the model may carry: a plain sort,
\* or a sort whose sortOrder holds a cache-busting token
SortingValues ==
    { <<SortSpec("ACCEPTANCE", DESCENDING)>>,
      <<SortSpec("DIFFICULTY", ASCENDING)>>,
      <<SortSpec("ACCEPTANCE", "1")>> }

\* the custom blocks a URL of the model may carry
CustomValues ==
    { [sort |-> {SortSpec(RANKING, ASCENDING)}, rankRange |-> {}],
      [sort |-> {SortSpec(RANKING, DESCENDING)}, rankRange |-> {<<1, 2>>}],
      [sort |-> {SortSpec("ACCEPTANCE", DESCENDING)}, rankRange |-> {}],
      [sort |-> {SortSpec("ACCEPTANCE", ASCENDING)}, rankRange |-> {<<1, 2>>}],
      [sort |-> {}, rankRange |-> {<<1, 2>>}] }

OtherValues == { <<>>, [k \in {"page"} |-> "2"], [k \in {"page", "topicSlugs"} |-> "2"] }

ParamsValues ==
    { [sorting |-> s, custom |-> c, other |-> o] :
        s \in {{}} \cup {{x} : x \in SortingValues},
        c \in {{}} \cup {{x} : x \in CustomValues},
        o \in OtherValues }

\* the query strings of the model: each parameter set in the serializer's
\* order and in the opposite order
SearchValues ==
    {serializationPrams(p) : p \in ParamsValues}
        \cup {Reverse(serializationPrams(p)) : p \in ParamsValues}

Pathname == "/problemset/all/"


(***************************************************************************)
(* The host page.                                                          *)
(***************************************************************************)
\* the host tables the overlay may be given; T0 is a table the host has not
\* filled yet: it has neither a header row nor a row-group container
Tables == {"T1", "T2", "T0"}

HasRowgroup(t) == t # "T0"

\* tableEl.children[0]?.children[0]?.children[0] is an element
HasTitleRow(t) == t # "T0"

\* the nodes the host may put under the row group of table t; s1 is an
\* element that is no HTMLDivElement
Pool(t) == IF t = "T1" THEN {"r1", "r2", "s1"} ELSE IF t = "T2" THEN {"q1"} ELSE {}

IsDiv(node) == node # "s1"

\* the child lists of the row group of table t: no node occurs twice
ChildLists(t) ==
    UNION { {s \in [1..n -> Pool(t)] : \A i, j \in 1..n : i # j => s[i] # s[j]} : n \in 0..MaxRows }

\* the bounding rectangle of the Popper and the size of the window
PopperRect == [right |-> 3, bottom |-> 2]
InnerSize == [innerWidth |-> 4, innerHeight |-> 4]

(***************************************************************************)
(* The rank-data store (globalSlice).                                      *)
(***************************************************************************)
Thunks == {"global/fetchGlobalData", "global/fetchProblemsetPageProps",
           "global/fetchProblemRankData"}

Slugs == {"two-sum", "lru-cache"}

\* the rank records the data layer may return
RankRecords == {[TitleSlug |-> sl, Rating |-> r] : sl \in Slugs, r \in {"1200", "1900"}}

RankPayloads == UNION {[1..n -> RankRecords] : n \in 0..MaxPayload}

initialState == [globalData |-> {}, problemsetPageProps |-> {}, ProblemRankData |-> <<>>]

\* state.ProblemRankData[rank.TitleSlug] = rank
Assign(map, rank) ==
    [k \in DOMAIN map \cup {rank.TitleSlug} |-> IF k = rank.TitleSlug THEN rank ELSE map[k]]

\* AssignAll keeping the record a slug already has
RECURSIVE AssignAllKeepFirst(_, _)
AssignAllKeepFirst(map, payload) ==
    IF payload = <<>> THEN map
    ELSE AssignAllKeepFirst(IF Head(payload).TitleSlug \in DOMAIN map
                            THEN map ELSE Assign(map, Head(payload)),
                            Tail(payload))

\* for (const rank of action.payload) ...
RECURSIVE AssignAll(_, _)
AssignAll(map, payload) ==
    IF payload = <<>> THEN map
    ELSE AssignAll(Assign(map, Head(payload)), Tail(payload))

\* reducer with a case for the rejected rank-data fetch that resets the map
reducerResetOnRejected(state, action) ==
    IF action.type = "global/fetchGlobalData/fulfilled"
    THEN [state EXCEPT !.globalData = {action.payload}]
    ELSE IF action.type = "global/fetchProblemsetPageProps/fulfilled"
    THEN [state EXCEPT !.problemsetPageProps = {action.payload}]
    ELSE IF action.type = "global/fetchProblemRankData/fulfilled"
    THEN [state EXCEPT !.ProblemRankData = AssignAll(@, action.payload)]
    ELSE IF action.type = "global/fetchProblemRankData/rejected"
    THEN [state EXCEPT !.ProblemRankData = <<>>]
    ELSE state

\* the cases of extraReducers; an action of any other type leaves the state
reducer(state, action) ==
    IF action.type = "global/fetchGlobalData/fulfilled"
    THEN [state EXCEPT !.globalData = {action.payload}]
    ELSE IF action.type = "global/fetchProblemsetPageProps/fulfilled"
    THEN [state EXCEPT !.problemsetPageProps = {action.payload}]
    ELSE IF action.type = "global/fetchProblemRankData/fulfilled"
    THEN [state EXCEPT !.ProblemRankData = AssignAll(@, action.payload)]
    ELSE state

\* state.global.ProblemRankData[titleSlug]: {} stands for undefined
selectProblemRankDataByTitleSlug(state, titleSlug) ==
    IF titleSlug \in DOMAIN state.ProblemRankData
    THEN {state.ProblemRankData[titleSlug]}
    ELSE {}

\* the store reduces an action
Reduce(action) ==
    /\ store' = reducer(store, action)
    /\ lastAction' = action.type
    /\ lastRankPayload' = IF action.type = "global/fetchProblemRankData/fulfilled"
                          THEN action.payload ELSE <<>>

(***************************************************************************)
(* optionSlice: the feature flag.                                          *)
(***************************************************************************)
disableProblemRating(en) == FALSE
enableProblemRating(en) == TRUE

(***************************************************************************)
(* routerTo(url): the host's client-side navigation.                       *)
(***************************************************************************)
routerTo(url) == url

(***************************************************************************)
(* debounce(fn, 500): a call cancels the instance's pending timer and      *)
(* starts a new one.  A timer is [rem, rg, live]: the time that remains,   *)
(* the row group its callback scans, and whether it belongs to the         *)
(* instance of the effect run that is current.                             *)
(***************************************************************************)
debounce(timers, rg) ==
    Append(SelectSeq(timers, LAMBDA t : ~t.live),
           [rem |-> DebounceWait, rg |-> rg, live |-> TRUE])

\* ObserverCallback with a debounced function of its own for every
\* notification: no pending timer is cancelled
ObserverCallbackFresh(timers, rg) ==
    Append(timers, [rem |-> DebounceWait, rg |-> rg, live |-> TRUE])

\* new MutationObserver(handleRowChange): a notification calls the effect
\* run's one debounced handleRowChange
ObserverCallback(timers, rg) == debounce(timers, rg)

\* handleRowChange putting each div child in front of the ones before it
handleRowChangeReversed(children) == Reverse(SelectSeq(children, IsDiv))

\* the body of handleRowChange: the row group's children that are div elements
handleRowChange(children) == SelectSeq(children, IsDiv)

\* observer.disconnect() of the effect's cleanup
disconnect(obs) == {}

\* the timers after the cleanup of the row effect: the cleanup cancels none,
\* the instance they belong to is no longer the current one
Orphan(timers) == [i \in DOMAIN timers |-> [timers[i] EXCEPT !.live = FALSE]]

(***************************************************************************)
(* useEffect(..., [enable]): the visibility of the overlay root.           *)
(***************************************************************************)
\* the thunk of the rank data
RankThunk == "global/fetchProblemRankData"

\* VisibilityEffect never hiding the root
VisibilityEffectNoHide(en) ==
    /\ rootDisplay' = "block"
    /\ IF en
       THEN /\ inflight' = [inflight EXCEPT ![RankThunk] = @ + 1]
            /\ Reduce([type |-> RankThunk \o "/pending", payload |-> <<>>])
            /\ questionFetches' = questionFetches + 1
       ELSE UNCHANGED storeVars

\* useEffect(..., [enable]): when enabled, dispatch(fetchProblemRankData()),
\* whose pending action the store reduces, dispatch(fetchAllQuestions()) of
\* the questions slice, and show the root; otherwise hide the root
VisibilityEffect(en) ==
    IF en
    THEN /\ inflight' = [inflight EXCEPT ![RankThunk] = @ + 1]
         /\ Reduce([type |-> RankThunk \o "/pending", payload |-> <<>>])
         /\ questionFetches' = questionFetches + 1
         /\ rootDisplay' = "block"
    ELSE /\ rootDisplay' = "none"
         /\ UNCHANGED storeVars

\* useEffect(..., [enable, tableEl.parentElement]): the cleanup of the
\* previous run sets rankRangeWrap to null and leaves its div where it is;
\* the run for en creates a div, inserts it before the table's parent and
\* keeps it in rankRangeWrap.  Divs are numbered in the order of insertion.
RangeEffect(en) ==
    IF en
    THEN /\ wrapDivs' = wrapDivs + 1
         /\ rankRangeWrap' = {wrapDivs + 1}
    ELSE /\ rankRangeWrap' = {}
         /\ wrapDivs' = wrapDivs

(***************************************************************************)
(* useEffect(..., [enable, tableEl.children]): the row synchronizer.  The  *)
(* cleanup of the previous run comes first, then the run for the new       *)
(* values en and tbl.                                                      *)
(***************************************************************************)
RowEffect(en, tbl) ==
    IF en
    THEN IF HasRowgroup(tbl)
         THEN /\ rowTimers' = debounce(Orphan(rowTimers), tbl)
              /\ observed' = disconnect(observed) \cup {tbl}
              /\ sinceCall' = 0
              /\ livePubs' = 0
              /\ burst' = 1
              /\ rows' = rows
         ELSE /\ rowTimers' = Orphan(rowTimers)
              /\ observed' = disconnect(observed)
              /\ UNCHANGED <<sinceCall, livePubs, burst, rows>>
    ELSE /\ rowTimers' = Orphan(rowTimers)
         /\ observed' = disconnect(observed)
         /\ rows' = <<>>
         /\ UNCHANGED <<sinceCall, livePubs, burst>>

(***************************************************************************)
(* handleDisable and its delayed callback.                                 *)
(***************************************************************************)
\* CleanParams setting the direction of the sort it keeps to ASCENDING
CleanParamsAscending(params) ==
    IF params.custom # {}
    THEN LET custom == CHOOSE c \in params.custom : TRUE
             dropped == [params EXCEPT !.sorting = {}]
             kept == IF custom.sort # {}
                        /\ (CHOOSE s \in custom.sort : TRUE).orderBy # RANKING
                     THEN [dropped EXCEPT !.sorting =
                              {<<SortSpec((CHOOSE s \in custom.sort : TRUE).orderBy, ASCENDING)>>}]
                     ELSE dropped
         IN [kept EXCEPT !.custom = {}]
    ELSE params

\* CleanParams without its "delete params.sorting"
CleanParamsKeepSorting(params) ==
    IF params.custom # {}
    THEN LET custom == CHOOSE c \in params.custom : TRUE
             kept == IF custom.sort # {}
                        /\ (CHOOSE s \in custom.sort : TRUE).orderBy # RANKING
                     THEN [params EXCEPT !.sorting = {<<CHOOSE s \in custom.sort : TRUE>>}]
                     ELSE params
         IN [kept EXCEPT !.custom = {}]
    ELSE params

\* CleanParams deleting custom.sort alone, a rankRange staying in custom
CleanParamsKeepRange(params) ==
    IF params.custom # {}
    THEN LET custom == CHOOSE c \in params.custom : TRUE
             dropped == [params EXCEPT !.sorting = {}]
             kept == IF custom.sort # {}
                        /\ (CHOOSE s \in custom.sort : TRUE).orderBy # RANKING
                     THEN [dropped EXCEPT !.sorting = {<<CHOOSE s \in custom.sort : TRUE>>}]
                     ELSE dropped
         IN [kept EXCEPT !.custom =
                IF custom.rankRange # {}
                THEN {[sort |-> {}, rankRange |-> custom.rankRange]}
                ELSE {}]
    ELSE params

\* CleanParams with its "delete params.sorting" outside the custom test
CleanParamsAlwaysDrop(params) ==
    IF params.custom # {}
    THEN LET custom == CHOOSE c \in params.custom : TRUE
             dropped == [params EXCEPT !.sorting = {}]
             kept == IF custom.sort # {}
                        /\ (CHOOSE s \in custom.sort : TRUE).orderBy # RANKING
                     THEN [dropped EXCEPT !.sorting = {<<CHOOSE s \in custom.sort : TRUE>>}]
                     ELSE dropped
         IN [kept EXCEPT !.custom = {}]
    ELSE [params EXCEPT !.sorting = {}]

\* the QueryParams the callback of handleDisable serializes
CleanParams(params) ==
    IF params.custom # {}
    THEN LET custom == CHOOSE c \in params.custom : TRUE
             dropped == [params EXCEPT !.sorting = {}]
             kept == IF custom.sort # {}
                        /\ (CHOOSE s \in custom.sort : TRUE).orderBy # RANKING
                     THEN [dropped EXCEPT !.sorting = {<<CHOOSE s \in custom.sort : TRUE>>}]
                     ELSE dropped
         IN [kept EXCEPT !.custom = {}]
    ELSE params

\* DisableUrl serializing the sort parameters alone
DisableUrlSortOnly(loc) ==
    [pathname |-> loc.pathname,
     search |-> serializationPrams(
                    [CleanParams(parseParams(loc.search)) EXCEPT !.other = <<>>])]

\* the url of the callback: location.pathname + '?' + serializationPrams(params)
DisableUrl(loc) ==
    [pathname |-> loc.pathname,
     search |-> serializationPrams(CleanParams(parseParams(loc.search)))]

\* a Deactivate is pending within its settle delay
PendingDeactivate == \E i \in DOMAIN navTimers : navTimers[i].rem > 0

handleDisable ==
    /\ deactLeft > 0
    /\ IF ~hover
       THEN \* popperRef.current is null: getBoundingClientRect throws
            /\ thrown' = TRUE
            /\ deactLeft' = deactLeft - 1
            /\ UNCHANGED <<enable, pos, hover, navTimers, location, navLog, rootDisplay>>
            /\ UNCHANGED <<syncVars, storeVars, wrapVars>>
       ELSE /\ pos' = {[right |-> InnerSize.innerWidth - PopperRect.right,
                        bottom |-> InnerSize.innerHeight - PopperRect.bottom]}
            /\ enable' = disableProblemRating(enable)
            /\ navTimers' = Append(navTimers,
                                   [rem |-> SettleDelay,
                                    age |-> 0,
                                    dup |-> PendingDeactivate,
                                    superseded |-> FALSE])
            /\ deactLeft' = deactLeft - 1
            /\ IF enable' # enable
               THEN /\ VisibilityEffect(enable')
                    /\ RowEffect(enable', tableEl)
                    /\ RangeEffect(enable')
               ELSE /\ UNCHANGED <<rows, observed, rowTimers, sinceCall, livePubs, burst>>
                    /\ UNCHANGED <<rootDisplay, storeVars, wrapVars>>
            /\ UNCHANGED <<hover, location, navLog, thrown, tableEl, dom>>
    /\ UNCHANGED <<headVars, mountVars>>

\* the callback of handleDisable's setTimeout
NavTimerFire ==
    /\ navTimers # <<>>
    /\ Head(navTimers).rem = 0
    /\ LET url == DisableUrl(location)
       IN /\ location' = routerTo(url)
          /\ navLog' = Append(navLog, [url |-> url,
                                       from |-> location,
                                       dup |-> Head(navTimers).dup,
                                       superseded |-> Head(navTimers).superseded])
    /\ navTimers' = Tail(navTimers)
    /\ UNCHANGED <<enable, pos, hover, deactLeft, thrown, rootDisplay>>
    /\ UNCHANGED <<syncVars, headVars, storeVars, wrapVars, mountVars>>

\* handleEnable: the Open affordance is mounted while the feature is disabled
handleEnable ==
    /\ ~enable
    /\ Len(rowTimers) < MaxRowTimers
    /\ wrapDivs < MaxWraps
    /\ enable' = enableProblemRating(enable)
    /\ navTimers' = [i \in DOMAIN navTimers |->
                        [navTimers[i] EXCEPT !.superseded = @ \/ navTimers[i].rem > 0]]
    /\ VisibilityEffect(enable')
    /\ RowEffect(enable', tableEl)
    /\ RangeEffect(enable')
    /\ UNCHANGED <<pos, hover, location, navLog, deactLeft, thrown, tableEl, dom>>
    /\ UNCHANGED <<headVars, mountVars>>

\* the pointer enters the range filter or the Popper: the Popper mounts and
\* popperRef.current is its element
HoverEnter ==
    /\ enable
    /\ ~hover
    /\ hover' = TRUE
    /\ UNCHANGED <<enable, pos, navTimers, location, navLog, deactLeft, thrown, rootDisplay>>
    /\ UNCHANGED <<syncVars, headVars, storeVars, wrapVars, mountVars>>

\* the pointer leaves both: the Popper unmounts and popperRef.current is null
HoverLeave ==
    /\ hover
    /\ hover' = FALSE
    /\ UNCHANGED <<enable, pos, navTimers, location, navLog, deactLeft, thrown, rootDisplay>>
    /\ UNCHANGED <<syncVars, headVars, storeVars, wrapVars, mountVars>>

(***************************************************************************)
(* The row synchronizer's events.                                          *)
(***************************************************************************)
\* a debounce timer is due: handleRowChange's body runs and publishes
RowTimerFire ==
    /\ rowTimers # <<>>
    /\ Head(rowTimers).rem = 0
    /\ rows' = handleRowChange(dom[Head(rowTimers).rg])
    /\ rowTimers' = Tail(rowTimers)
    /\ livePubs' = IF Head(rowTimers).live THEN livePubs + 1 ELSE livePubs
    /\ UNCHANGED <<tableEl, dom, observed, sinceCall, burst>>
    /\ UNCHANGED <<ctlVars, headVars, storeVars, wrapVars, mountVars>>

\* the host changes the children of the current table's row group; a
\* connected observer of that row group calls handleRowChange
HostMutateRows ==
    /\ HasRowgroup(tableEl)
    /\ \E c \in ChildLists(tableEl) :
         /\ c # dom[tableEl]
         /\ dom' = [dom EXCEPT ![tableEl] = c]
    /\ IF tableEl \in observed
       THEN /\ rowTimers' = ObserverCallback(rowTimers, tableEl)
            /\ sinceCall' = 0
            /\ livePubs' = 0
            /\ burst' = IF livePubs > 0 THEN 1 ELSE Min(burst + 1, MaxBurst)
       ELSE UNCHANGED <<rowTimers, sinceCall, livePubs, burst>>
    /\ UNCHANGED <<tableEl, rows, observed>>
    /\ UNCHANGED <<ctlVars, headVars, storeVars, wrapVars, mountVars>>

\* the host hands the overlay another table element under the same parent:
\* the effects that depend on tableEl.children run again
TableChange ==
    /\ Len(rowTimers) < MaxRowTimers
    /\ \E t \in Tables \ {tableEl} :
         /\ tableEl' = t
         /\ RowEffect(enable, t)
    /\ UNCHANGED dom
    /\ UNCHANGED <<ctlVars, headVars, storeVars, wrapVars, mountVars>>

\* the host moves the table under another parent element: the effect that
\* depends on tableEl.parentElement runs again
ParentChange ==
    /\ enable => wrapDivs < MaxWraps
    /\ RangeEffect(enable)
    /\ UNCHANGED <<ctlVars, syncVars, headVars, storeVars, mountVars>>

\* time passes: some timer is pending and none is due
Tick ==
    /\ navTimers \o rowTimers # <<>>
    /\ \A i \in DOMAIN navTimers : navTimers[i].rem > 0
    /\ \A i \in DOMAIN rowTimers : rowTimers[i].rem > 0
    /\ navTimers' = [i \in DOMAIN navTimers |->
                        [navTimers[i] EXCEPT !.rem = Monus(@, TickMs),
                                             !.age = Min(@ + TickMs, SettleDelay)]]
    /\ rowTimers' = [i \in DOMAIN rowTimers |->
                        [rowTimers[i] EXCEPT !.rem = Monus(@, TickMs)]]
    /\ sinceCall' = Min(sinceCall + TickMs, DebounceWait)
    /\ UNCHANGED <<enable, pos, hover, location, navLog, deactLeft, thrown, rootDisplay>>
    /\ UNCHANGED <<tableEl, dom, rows, observed, livePubs, burst>>
    /\ UNCHANGED <<headVars, storeVars, wrapVars, mountVars>>


(***************************************************************************)
(* The header map (useMemo otherRoots).  A header cell is [text, html]:    *)
(* its textContent and whether it is an HTMLElement; a cell is identified  *)
(* by its position in the header row.                                      *)
(***************************************************************************)
\* new Set(['状态', '企业']): the header texts "status" and "company"
ExclusionSet == {"zhuangtai", "qiye"}

\* [...titleRow.children].filter(...): the positions of the cells kept
FilterCells(row) ==
    SelectSeq([i \in 1..Len(row) |-> i],
              LAMBDA i : row[i].text # "" /\ row[i].text \notin ExclusionSet)

\* otherRootsOf filtering by the exclusion set alone
otherRootsOfAnyText(row) ==
    LET children == SelectSeq([i \in 1..Len(row) |-> i],
                              LAMBDA i : row[i].text \notin ExclusionSet)
        set == {i \in 1..Len(SORT_KEY) : i <= Len(children) /\ row[children[i]].html}
    IN [key \in {SORT_KEY[i] : i \in set} |->
            children[CHOOSE i \in set : SORT_KEY[i] = key]]

\* the loop over SORT_KEY: key i is given the i-th kept cell if it is an
\* HTMLElement
otherRootsOf(row) ==
    LET children == FilterCells(row)
        set == {i \in 1..Len(SORT_KEY) : i <= Len(children) /\ row[children[i]].html}
    IN [key \in {SORT_KEY[i] : i \in set} |->
            children[CHOOSE i \in set : SORT_KEY[i] = key]]

\* the cells of the model's header rows
Cells ==
    {[text |-> t, html |-> TRUE] : t \in {"", "zhuangtai", "qiye", "timu"}}
        \cup {[text |-> "timu", html |-> FALSE]}

HeaderRows == UNION {[1..n -> Cells] : n \in 0..MaxCells}

\* the host renders another header row: one cell more, or the first cell gone
HeaderSwap ==
    /\ \/ \E c \in Cells :
            /\ Len(titleRow) < MaxCells
            /\ titleRow' = Append(titleRow, c)
       \/ /\ titleRow # <<>>
          /\ titleRow' = Tail(titleRow)
    /\ otherRoots' = otherRootsOf(titleRow')
    /\ UNCHANGED <<ctlVars, syncVars, storeVars, wrapVars, mountVars>>

(***************************************************************************)
(* The thunks of the rank-data store.                                      *)
(***************************************************************************)
\* a thunk is dispatched: createAsyncThunk dispatches its pending action
ThunkDispatch ==
    /\ \E th \in Thunks :
         /\ inflight[th] < MaxInflight
         /\ inflight' = [inflight EXCEPT ![th] = @ + 1]
         /\ Reduce([type |-> th \o "/pending", payload |-> <<>>])
    /\ UNCHANGED <<ctlVars, syncVars, headVars, questionFetches, wrapVars, mountVars>>

\* the promise of a thunk resolves
ThunkFulfilled ==
    /\ \E th \in Thunks :
         /\ inflight[th] > 0
         /\ inflight' = [inflight EXCEPT ![th] = @ - 1]
         /\ \E payload \in IF th = "global/fetchProblemRankData"
                           THEN RankPayloads ELSE {"v1", "v2"} :
              Reduce([type |-> th \o "/fulfilled", payload |-> payload])
    /\ UNCHANGED <<ctlVars, syncVars, headVars, questionFetches, wrapVars, mountVars>>

\* the promise of a thunk is rejected
ThunkRejected ==
    /\ \E th \in Thunks :
         /\ inflight[th] > 0
         /\ inflight' = [inflight EXCEPT ![th] = @ - 1]
         /\ Reduce([type |-> th \o "/rejected", payload |-> <<>>])
    /\ UNCHANGED <<ctlVars, syncVars, headVars, questionFetches, wrapVars, mountVars>>

(***************************************************************************)
(* What the component renders, as a function of its state.                 *)
(***************************************************************************)
\* {enable && titleRow && <RankTitle .../>}
RankTitleMounted == enable /\ HasTitleRow(tableEl)

\* {enable && rankRangeWrap && <Portal container={rankRangeWrap}>...}
RankRangeMounted == enable /\ rankRangeWrap # {}

\* {(hoverRankRange || hoverPopper) && <Popper .../>}
PopperMounted == hover

\* the rows a Rank cell is rendered into, without the test of enable
RankCellsUngated == Range(rows)

\* {enable && rows.map(row => <Portal container={row}><Rank .../>)}
RankCells == IF enable THEN Range(rows) ELSE {}

\* {!enable && <Portal><Open .../></Portal>}
OpenMounted == ~enable

(***************************************************************************)
(* The mount effects of the home-page App and of the contest-ranking App.  *)
(* Each mount runs the effect once (its dependency list is empty); a run's *)
(* closure holds isMount and, for the home page, the root it created and   *)
(* whether unmount was assigned.  awaiting names the promise the run's     *)
(* async function waits for, "" when it has finished.                      *)
(***************************************************************************)
\* the instance that run i of the effects belongs to is still mounted
Alive(mounted, effects, i) == mounted /\ i = Len(effects)

\* the home page's continuation inserting without the test of isMount
HomeFoundAlways(run) ==
    [run EXCEPT !.awaiting = "", !.attached = TRUE, !.setRoot = TRUE, !.unmount = TRUE]

\* the home page's continuation after findElement: the closure afterwards;
\* setRoot says whether this continuation called setRoot
HomeFound(run) ==
    IF run.isMount
    THEN [run EXCEPT !.awaiting = "", !.attached = TRUE, !.setRoot = TRUE, !.unmount = TRUE]
    ELSE [run EXCEPT !.awaiting = ""]

\* the home page's cleanup: isMount = false; unmount && unmount()
HomeCleanup(run) ==
    [run EXCEPT !.isMount = FALSE,
                !.attached = IF run.unmount THEN FALSE ELSE @]

HomeMount ==
    /\ ~homeMounted
    /\ Len(homeEffects) < MaxMounts
    /\ homeMounted' = TRUE
    /\ root' = {}
    /\ homeEffects' = Append(homeEffects,
                             [isMount |-> TRUE, awaiting |-> "findElement",
                              attached |-> FALSE, setRoot |-> FALSE, unmount |-> FALSE])
    /\ UNCHANGED <<rankingMounted, rankingEffects, titleRoot, lateUpdates>>
    /\ UNCHANGED <<ctlVars, syncVars, headVars, storeVars, wrapVars>>

\* findElement resolves for a run of the home page's effect
HomeFindElementResolves ==
    /\ \E i \in DOMAIN homeEffects :
         /\ homeEffects[i].awaiting = "findElement"
         /\ LET after == HomeFound(homeEffects[i])
            IN /\ homeEffects' = [homeEffects EXCEPT ![i] = after]
               /\ IF after.setRoot
                  THEN IF Alive(homeMounted, homeEffects, i)
                       THEN root' = {i} /\ UNCHANGED lateUpdates
                       ELSE lateUpdates' = lateUpdates + 1 /\ UNCHANGED root
                  ELSE UNCHANGED <<root, lateUpdates>>
    /\ UNCHANGED <<homeMounted, rankingMounted, rankingEffects, titleRoot>>
    /\ UNCHANGED <<ctlVars, syncVars, headVars, storeVars, wrapVars>>

HomeUnmount ==
    /\ homeMounted
    /\ homeMounted' = FALSE
    /\ homeEffects' = [homeEffects EXCEPT ![Len(homeEffects)] = HomeCleanup(@)]
    /\ UNCHANGED <<root, rankingMounted, rankingEffects, titleRoot, lateUpdates>>
    /\ UNCHANGED <<ctlVars, syncVars, headVars, storeVars, wrapVars>>

\* the ranking page's continuation after findAllElement
RankingFound(run) ==
    IF run.isMount
    THEN [run EXCEPT !.awaiting = "", !.setRows = TRUE]
    ELSE [run EXCEPT !.awaiting = ""]

RankingMount ==
    /\ ~rankingMounted
    /\ Len(rankingEffects) < MaxMounts
    /\ rankingMounted' = TRUE
    /\ titleRoot' = {}
    /\ rankingEffects' = Append(rankingEffects,
                                [isMount |-> TRUE, awaiting |-> "findElement",
                                 setRows |-> FALSE])
    /\ UNCHANGED <<homeMounted, homeEffects, root, lateUpdates>>
    /\ UNCHANGED <<ctlVars, syncVars, headVars, storeVars, wrapVars>>

\* findElement resolves for a run of the ranking page's effect, which goes
\* on to await findAllElement
RankingFindElementResolves ==
    /\ \E i \in DOMAIN rankingEffects :
         /\ rankingEffects[i].awaiting = "findElement"
         /\ rankingEffects' = [rankingEffects EXCEPT ![i].awaiting = "findAllElement"]
    /\ UNCHANGED <<homeMounted, homeEffects, root, rankingMounted, titleRoot, lateUpdates>>
    /\ UNCHANGED <<ctlVars, syncVars, headVars, storeVars, wrapVars>>

\* findAllElement resolves: setTitleRoot and setRows when isMount
RankingFindAllResolves ==
    /\ \E i \in DOMAIN rankingEffects :
         /\ rankingEffects[i].awaiting = "findAllElement"
         /\ LET after == RankingFound(rankingEffects[i])
            IN /\ rankingEffects' = [rankingEffects EXCEPT ![i] = after]
               /\ IF after.setRows
                  THEN IF Alive(rankingMounted, rankingEffects, i)
                       THEN titleRoot' = {i} /\ UNCHANGED lateUpdates
                       ELSE lateUpdates' = lateUpdates + 2 /\ UNCHANGED titleRoot
                  ELSE UNCHANGED <<titleRoot, lateUpdates>>
    /\ UNCHANGED <<homeMounted, homeEffects, root, rankingMounted>>
    /\ UNCHANGED <<ctlVars, syncVars, headVars, storeVars, wrapVars>>

\* the ranking page's cleanup: isMount = false
RankingUnmount ==
    /\ rankingMounted
    /\ rankingMounted' = FALSE
    /\ rankingEffects' = [rankingEffects EXCEPT ![Len(rankingEffects)].isMount = FALSE]
    /\ UNCHANGED <<homeMounted, homeEffects, root, titleRoot, lateUpdates>>
    /\ UNCHANGED <<ctlVars, syncVars, headVars, storeVars, wrapVars>>

(***************************************************************************)
(* Initial states: the overlay is mounted with the feature enabled and its *)
(* effects have run.                                                       *)
(***************************************************************************)
InitCtl(searches, hov, budget) ==
    /\ enable = TRUE
    /\ pos = {}
    /\ hover = hov
    /\ navTimers = <<>>
    /\ location \in [pathname : {Pathname}, search : searches]
    /\ navLog = <<>>
    /\ deactLeft = budget
    /\ thrown = FALSE
    /\ rootDisplay = "block"

InitSync ==
    /\ tableEl = "T1"
    /\ dom = [t \in Tables |-> IF t = "T1" THEN <<"r1", "s1">>
                               ELSE IF t = "T2" THEN <<"q1">> ELSE <<>>]
    /\ rows = <<>>
    /\ observed = {"T1"}
    /\ rowTimers = <<[rem |-> DebounceWait, rg |-> "T1", live |-> TRUE]>>
    /\ sinceCall = 0
    /\ livePubs = 0
    /\ burst = 1

InitHead(rowsOfHeader) ==
    /\ titleRow \in rowsOfHeader
    /\ otherRoots = otherRootsOf(titleRow)

\* the visibility effect of the mount has dispatched its two thunks
InitStore ==
    /\ store = initialState
    /\ inflight = [th \in Thunks |-> IF th = RankThunk THEN 1 ELSE 0]
    /\ lastAction = RankThunk \o "/pending"
    /\ lastRankPayload = <<>>
    /\ questionFetches = 1

\* the range-filter effect of the mount has inserted its div
InitWrap ==
    /\ rankRangeWrap = {1}
    /\ wrapDivs = 1

\* both page components are mounted and their effects have started
InitMount ==
    /\ homeMounted = TRUE
    /\ homeEffects = <<[isMount |-> TRUE, awaiting |-> "findElement",
                        attached |-> FALSE, setRoot |-> FALSE, unmount |-> FALSE]>>
    /\ root = {}
    /\ rankingMounted = TRUE
    /\ rankingEffects = <<[isMount |-> TRUE, awaiting |-> "findElement", setRows |-> FALSE]>>
    /\ titleRoot = {}
    /\ lateUpdates = 0

\* the Sort Controller, from every URL of the model
Init == InitCtl(SearchValues, FALSE, MaxDeactivations) /\ InitSync /\ InitHead({<<>>}) /\ InitStore /\ InitWrap
    /\ InitMount

Next ==
    \/ HoverEnter
    \/ HoverLeave
    \/ handleDisable
    \/ handleEnable
    \/ NavTimerFire
    \/ RowTimerFire
    \/ ParentChange
    \/ Tick

Spec == Init /\ [][Next]_vars

\* the Row/Column Synchronizer, with the pointer over the Popper and one
\* Deactivate to come
RankUrl == serializationPrams([sorting |-> {}, other |-> <<>>,
               custom |-> {[sort |-> {SortSpec(RANKING, ASCENDING)}, rankRange |-> {}]}])

InitSyncSpec == InitCtl({RankUrl}, TRUE, 1) /\ InitSync /\ InitHead({<<>>}) /\ InitStore /\ InitWrap
    /\ InitMount

NextSync ==
    \/ handleDisable
    \/ handleEnable
    \/ NavTimerFire
    \/ RowTimerFire
    \/ HostMutateRows
    \/ TableChange
    \/ Tick

SpecSync == InitSyncSpec /\ [][NextSync]_vars

\* the header map, from every header row of the model
InitHeader == InitCtl({RankUrl}, FALSE, 0) /\ InitSync /\ InitHead(HeaderRows) /\ InitStore /\ InitWrap
    /\ InitMount

NextHeader == HeaderSwap

SpecHeader == InitHeader /\ [][NextHeader]_vars

\* the store and its thunks
InitStoreSpec == InitCtl({RankUrl}, FALSE, 0) /\ InitSync /\ InitHead({<<>>}) /\ InitStore /\ InitWrap
    /\ InitMount

NextStore ==
    \/ ThunkDispatch
    \/ ThunkFulfilled
    \/ ThunkRejected

SpecStore == InitStoreSpec /\ [][NextStore]_vars

\* the mount effects of the two page components
InitMountSpec == InitCtl({RankUrl}, FALSE, 0) /\ InitSync /\ InitHead({<<>>}) /\ InitStore /\ InitWrap
    /\ InitMount

NextMount ==
    \/ HomeMount
    \/ HomeFindElementResolves
    \/ HomeUnmount
    \/ RankingMount
    \/ RankingFindElementResolves
    \/ RankingFindAllResolves
    \/ RankingUnmount

SpecMount == InitMountSpec /\ [][NextMount]_vars


(***************************************************************************)
(* Properties of the Sort Controller.                                      *)
(***************************************************************************)
Before(nav) == parseParams(nav.from.search)
After(nav) == parseParams(nav.url.search)
TheOne(S) == CHOOSE x \in S : TRUE

\* C1: idempotence of disable.  A handleDisable call that arrives while an
\* earlier call's settle delay is still running causes no navigation of its
\* own: the two calls produce one routerTo call in total.
DisableIdempotent == \A i \in DOMAIN navLog : ~navLog[i].dup

\* C2: a handleEnable that arrives within the settle delay of a pending
\* Deactivate cancels it: no routerTo call is made by a Deactivate that was
\* superseded by a re-enable.
EnableCancelsPending == \A i \in DOMAIN navLog : ~navLog[i].superseded

RankDisableDropsSorting ==
    \A i \in DOMAIN navLog :
        LET b == Before(navLog[i])
        IN (b.custom # {}
              /\ TheOne(b.custom).sort # {}
              /\ TheOne(TheOne(b.custom).sort).orderBy = RANKING)
           => /\ ~HasKey(navLog[i].url.search, "custom")
              /\ ~HasKey(navLog[i].url.search, "sorting")

\* a rank sort was disabled on a URL that also held a native sorting entry
\* and a rankRange
RankDisableWitness ==
    \E i \in DOMAIN navLog :
        /\ Before(navLog[i]).custom # {}
        /\ TheOne(Before(navLog[i]).custom).sort = {SortSpec(RANKING, DESCENDING)}
        /\ TheOne(Before(navLog[i]).custom).rankRange # {}
        /\ Before(navLog[i]).sorting # {}
        /\ navLog[i].url.search = <<>>

\* C7: a handleDisable call made while popperRef.current is null still
\* completes: no call ends in an error that leaves the feature enabled with
\* no navigation scheduled.
DisableNeverAborts == ~thrown

\* C9: every parameter other than sorting and custom that the URL holds when
\* the timer fires is in the URL navigated to with the same value, no other
\* such parameter is added, and the path is the same.
DisableKeepsOtherParams ==
    \A i \in DOMAIN navLog :
        /\ navLog[i].url.pathname = navLog[i].from.pathname
        /\ \A k \in Range(OtherKeys) :
              /\ HasKey(navLog[i].url.search, k) <=> HasKey(navLog[i].from.search, k)
              /\ HasKey(navLog[i].from.search, k) =>
                    LastValue(navLog[i].url.search, k) = LastValue(navLog[i].from.search, k)

\* a navigation from a URL with a custom block and two other parameters,
\* written in another order than the serializer's
DisableKeepsOtherWitness ==
    \E i \in DOMAIN navLog :
        /\ Before(navLog[i]).custom # {}
        /\ DOMAIN Before(navLog[i]).other = {"page", "topicSlugs"}
        /\ navLog[i].from.search[1].k = "custom"
        /\ navLog[i].url.search # navLog[i].from.search


(***************************************************************************)
(* Properties of the Row/Column Synchronizer.                              *)
(***************************************************************************)
LiveTimers == SelectSeq(rowTimers, LAMBDA t : t.live)

\* a step in which the live handleRowChange publishes
LivePublish == livePubs' = livePubs + 1

DivChildren(t) == {x \in Range(dom[t]) : IsDiv(x)}

TeardownClearsRows ==
    [][(tableEl' # tableEl \/ (enable /\ ~enable'))
          => (rows' = <<>> /\ observed' \subseteq {tableEl'})]_vars

\* the number of cells up to position j of the row that satisfy Keep
Ordinal(row, j, Keep(_)) == Cardinality({m \in 1..j : Keep(row[m])})

\* map gives the i-th key the i-th cell that satisfies Keep when that cell
\* is Usable, and gives no other key a cell
MapsPositionally(row, map, Keep(_), Usable(_)) ==
    /\ DOMAIN map \subseteq Range(SORT_KEY)
    /\ \A i \in 1..Len(SORT_KEY) :
          LET cand == {j \in 1..Len(row) : Keep(row[j]) /\ Ordinal(row, j, Keep) = i}
          IN IF cand # {} /\ Usable(row[TheOne(cand)])
             THEN SORT_KEY[i] \in DOMAIN map /\ map[SORT_KEY[i]] = TheOne(cand)
             ELSE SORT_KEY[i] \notin DOMAIN map

\* C8 as stated: the header map leaves out the cells whose text is in the
\* exclusion set and gives the i-th of all other cells to the i-th sort key;
\* cells beyond the number of keys are ignored.
HeaderMapExcludesListed ==
    MapsPositionally(titleRow, otherRoots,
                     LAMBDA c : c.text \notin ExclusionSet,
                     LAMBDA c : TRUE)

\* C8 as amended: the header map leaves out the cells whose text is empty or
\* in the exclusion set and gives the i-th of the other cells to the i-th
\* sort key when that cell is an HTMLElement, leaving the key without a cell
\* when it is not; cells beyond the number of keys are ignored.
HeaderMapExcludesEmptyToo ==
    MapsPositionally(titleRow, otherRoots,
                     LAMBDA c : c.text # "" /\ c.text \notin ExclusionSet,
                     LAMBDA c : c.html)

\* a header row with an excluded cell, a cell without text and a cell that is
\* no HTMLElement
HeaderMapWitness ==
    /\ titleRow = << [text |-> "zhuangtai", html |-> TRUE],
                     [text |-> "", html |-> TRUE],
                     [text |-> "timu", html |-> TRUE],
                     [text |-> "timu", html |-> FALSE],
                     [text |-> "timu", html |-> TRUE] >>
    /\ DOMAIN otherRoots = {"TITLE", "DIFFICULTY"}
    /\ otherRoots["TITLE"] = 3
    /\ otherRoots["DIFFICULTY"] = 5

(***************************************************************************)
(* Properties of the rank-data store.                                      *)
(***************************************************************************)
\* a step in which the store reduces the rejection of a rank-data fetch
RankRejectedStep ==
    /\ inflight'["global/fetchProblemRankData"] < inflight["global/fetchProblemRankData"]
    /\ lastAction' = "global/fetchProblemRankData/rejected"

\* C10: a rejected rank-data fetch leaves the state of the store as it was:
\* the map keeps its entries and every lookup by problem identifier returns
\* what it returned before.
RejectedFetchLeavesStore ==
    [][RankRejectedStep =>
          /\ store' = store
          /\ \A sl \in Slugs :
                selectProblemRankDataByTitleSlug(store', sl)
                    = selectProblemRankDataByTitleSlug(store, sl)]_vars

\* a rank-data fetch was rejected when the map held records, and it holds
\* them still
RejectedFetchWitness ==
    /\ lastAction = "global/fetchProblemRankData/rejected"
    /\ selectProblemRankDataByTitleSlug(store, "two-sum")
          = {[TitleSlug |-> "two-sum", Rating |-> "1900"]}
    /\ selectProblemRankDataByTitleSlug(store, "lru-cache") = {}


(***************************************************************************)
(* Further properties of the Sort Controller.                              *)
(***************************************************************************)
\* a step in which handleDisable schedules its navigation
DeactivateStep == Len(navTimers') = Len(navTimers) + 1

\* a step in which routerTo is called
NavigateStep == Len(navLog') = Len(navLog) + 1

\* one handleDisable call has been made, it did not throw, and the feature
\* has not been enabled since
SingleDeactivate ==
    /\ deactLeft = MaxDeactivations - 1
    /\ ~thrown
    /\ \A i \in DOMAIN navTimers : ~navTimers[i].superseded
    /\ \A i \in DOMAIN navLog : ~navLog[i].superseded

\* C11: the order of Deactivate.  The trigger clears the flag and hides the
\* root without touching the URL; the URL changes in no other step than a
\* routerTo call; a routerTo call is made by a timer that has waited the
\* settle delay; and a single Deactivate has exactly one navigation, pending
\* or done.
DeactivateOrder ==
    /\ [][DeactivateStep =>
            (~enable' /\ rootDisplay' = "none" /\ location' = location
               /\ navLog' = navLog)]_vars
    /\ [][location' # location => NavigateStep]_vars
    /\ [][NavigateStep =>
            /\ Head(navTimers).age >= SettleDelay
            /\ navTimers' = Tail(navTimers)
            /\ location' = navLog'[Len(navLog')].url]_vars
    /\ [](SingleDeactivate => Len(navTimers) + Len(navLog) = 1)
    /\ [](\A i \in DOMAIN navTimers :
            (navTimers[i].age < SettleDelay /\ ~navTimers[i].superseded)
                => (~enable /\ rootDisplay = "none"))

\* a single Deactivate has navigated, once, from a URL with a custom block,
\* with the feature disabled and the root hidden
DeactivateOrderWitness ==
    /\ SingleDeactivate
    /\ navTimers = <<>>
    /\ Len(navLog) = 1
    /\ navLog[1].from.search # navLog[1].url.search
    /\ location = navLog[1].url
    /\ ~enable
    /\ rootDisplay = "none"

\* C13: no URL navigated to holds a custom entry, whatever sort column or
\* rankRange the custom block of the URL left behind held.
DisableDropsCustom ==
    \A i \in DOMAIN navLog :
        /\ ~HasKey(navLog[i].url.search, "custom")
        /\ After(navLog[i]).custom = {}

\* a navigation from a URL whose custom block held a rankRange and no sort
RangeOnlyDisableWitness ==
    \E i \in DOMAIN navLog :
        /\ Before(navLog[i]).custom # {}
        /\ TheOne(Before(navLog[i]).custom).sort = {}
        /\ TheOne(Before(navLog[i]).custom).rankRange # {}
        /\ Before(navLog[i]).sorting # {}

\* C16: from a URL with no custom block the navigation goes to the same path
\* with a query that parses to the same parameters: the same native sorting
\* and the same other parameters.
NoCustomDisableKeepsQuery ==
    \A i \in DOMAIN navLog :
        Before(navLog[i]).custom = {} =>
            /\ navLog[i].url.pathname = navLog[i].from.pathname
            /\ After(navLog[i]) = Before(navLog[i])
            /\ After(navLog[i]).sorting = Before(navLog[i]).sorting
            /\ After(navLog[i]).other = Before(navLog[i]).other

\* a navigation from a URL with a native sorting, another parameter and no
\* custom block, written in another order than the serializer's
NoCustomDisableWitness ==
    \E i \in DOMAIN navLog :
        /\ ~HasKey(navLog[i].from.search, "custom")
        /\ Before(navLog[i]).sorting # {}
        /\ DOMAIN Before(navLog[i]).other # {}
        /\ navLog[i].url.search # navLog[i].from.search

(***************************************************************************)
(* Further properties of the Row Synchronizer.                             *)
(***************************************************************************)
\* a step in which a debounce timer runs its re-scan and publishes
PublishStep == rowTimers # <<>> /\ rowTimers' = Tail(rowTimers)

\* C12: a re-scan scheduled before its effect run was torn down never
\* publishes, and while the feature is disabled the published list is empty.
NoStalePublish ==
    /\ [][PublishStep => Head(rowTimers).live]_vars
    /\ [](~enable => rows = <<>>)

\* the position of node x among the children
PositionIn(children, x) == CHOOSE k \in DOMAIN children : children[k] = x

\* C15 as stated: a republish makes the published list the child elements of
\* the re-scan's row group, all of them, in document order.
PublishAllChildElements ==
    [][PublishStep => rows' = dom[Head(rowTimers).rg]]_vars

\* C15 as amended: a republish makes the published list exactly those
\* children of the re-scan's row group that are HTMLDivElement nodes, each
\* once and in document order, whatever the list held before; child elements
\* of another type are left out.
PublishDivChildren ==
    [][PublishStep =>
          LET children == dom[Head(rowTimers).rg]
          IN /\ Range(rows') = {x \in Range(children) : IsDiv(x)}
             /\ \A i, j \in DOMAIN rows' :
                   i < j => PositionIn(children, rows'[i]) < PositionIn(children, rows'[j])]_vars

\* a republish of a row group whose children are an element that is no div
\* and a div that was not among the children of the mount: the list holds
\* the div alone
PublishDivChildrenWitness ==
    /\ livePubs = 1
    /\ tableEl = "T1"
    /\ dom[tableEl] = <<"s1", "r2">>
    /\ rows = <<"r2">>

(***************************************************************************)
(* Properties of what is rendered and inserted.                            *)
(***************************************************************************)
\* C14: the overlay follows the feature flag.  While the feature is enabled
\* the root is displayed and the Open affordance is not mounted; while it is
\* disabled the root is hidden, neither the rank title nor the range filter
\* nor any rank cell is mounted, and the Open affordance is; and every step
\* that takes the flag from disabled to enabled dispatches one rank-data
\* fetch and one fetch of the questions.
OverlayFollowsFlag ==
    /\ [](enable => (rootDisplay = "block" /\ ~OpenMounted))
    /\ [](~enable => /\ rootDisplay = "none"
                     /\ ~RankTitleMounted
                     /\ ~RankRangeMounted
                     /\ RankCells = {}
                     /\ OpenMounted)
    /\ [][(~enable /\ enable') =>
            /\ inflight'[RankThunk] = inflight[RankThunk] + 1
            /\ lastAction' = RankThunk \o "/pending"
            /\ questionFetches' = questionFetches + 1]_vars

\* the feature was enabled again and then disabled, and it is disabled with
\* rows still in the published list
OverlayFollowsFlagWitness ==
    /\ ~enable
    /\ rows # <<>>
    /\ rootDisplay = "none"
    /\ inflight[RankThunk] = 2
    /\ questionFetches = 2

\* C17: at most one div of the range-filter effect is in the host DOM, and
\* none is while the feature is disabled.
OneWrapAttached ==
    /\ wrapDivs <= 1
    /\ ~enable => wrapDivs = 0

(***************************************************************************)
(* Further properties of the rank-data store.                              *)
(***************************************************************************)
\* a step in which the store reduces a fulfilled rank-data fetch
RankFulfilledStep ==
    /\ inflight'[RankThunk] < inflight[RankThunk]
    /\ lastAction' = RankThunk \o "/fulfilled"

\* a step in which the store reduces another fulfilled thunk
OtherFulfilledStep ==
    /\ inflight' # inflight
    /\ lastAction' \in {th \o "/fulfilled" : th \in Thunks \ {RankThunk}}

MaxOf(S) == CHOOSE x \in S : \A y \in S : y <= x

\* C19: the rank-data map accumulates.  A fulfilled rank-data fetch gives
\* every slug of its payload the record at the last position of the payload
\* that carries the slug and leaves every other slug's lookup as it was; no
\* step removes a slug from the map; and a fulfilled fetch of the global data
\* or of the page props leaves the map as it was.
RankDataAccumulates ==
    /\ [][RankFulfilledStep =>
            \A sl \in Slugs :
                LET at == {i \in DOMAIN lastRankPayload' :
                              lastRankPayload'[i].TitleSlug = sl}
                IN selectProblemRankDataByTitleSlug(store', sl) =
                      IF at # {} THEN {lastRankPayload'[MaxOf(at)]}
                      ELSE selectProblemRankDataByTitleSlug(store, sl)]_vars
    /\ [][DOMAIN store.ProblemRankData \subseteq DOMAIN store'.ProblemRankData]_vars
    /\ [][OtherFulfilledStep =>
            store'.ProblemRankData = store.ProblemRankData]_vars

\* a payload with two records of one slug was reduced over a map that held
\* another record of that slug and a record of another slug: the map has the
\* payload's second record and still the other slug's record
RankDataAccumulatesWitness ==
    /\ lastAction = RankThunk \o "/fulfilled"
    /\ lastRankPayload = << [TitleSlug |-> "two-sum", Rating |-> "1900"],
                            [TitleSlug |-> "two-sum", Rating |-> "1200"] >>
    /\ selectProblemRankDataByTitleSlug(store, "two-sum")
          = {[TitleSlug |-> "two-sum", Rating |-> "1200"]}
    /\ selectProblemRankDataByTitleSlug(store, "lru-cache")
          = {[TitleSlug |-> "lru-cache", Rating |-> "1900"]}
    /\ store.globalData # {}

(***************************************************************************)
(* Properties of the page components' mount effects.                       *)
(***************************************************************************)
\* C18: the mount race.  No state setter is called on an unmounted instance;
\* the root created by an effect run is in the host DOM only while the run's
\* instance is mounted, so none is after the unmount; and a continuation
\* that runs after its instance was unmounted inserts nothing and sets no
\* state.
MountRaceSafe ==
    /\ [](lateUpdates = 0)
    /\ [](\A i \in DOMAIN homeEffects :
             homeEffects[i].attached => Alive(homeMounted, homeEffects, i))
    /\ [](~homeMounted => \A i \in DOMAIN homeEffects : ~homeEffects[i].attached)
    /\ [][\A i \in DOMAIN homeEffects :
             (~homeEffects[i].isMount /\ homeEffects[i].awaiting # ""
                 /\ homeEffects'[i].awaiting = "")
                => (~homeEffects'[i].attached /\ ~homeEffects'[i].setRoot
                      /\ root' = root)]_vars
    /\ [][\A i \in DOMAIN rankingEffects :
             (~rankingEffects[i].isMount /\ rankingEffects[i].awaiting # ""
                 /\ rankingEffects'[i].awaiting = "")
                => (~rankingEffects'[i].setRows /\ titleRoot' = titleRoot)]_vars

\* both orders on the home page: the first mount's root was inserted and
\* removed by the unmount, the second mount's findElement resolved after the
\* unmount and inserted nothing; and the ranking page's findAllElement
\* resolved after its unmount
MountRaceWitness ==
    /\ ~homeMounted
    /\ Len(homeEffects) = 2
    /\ homeEffects[1] = [isMount |-> FALSE, awaiting |-> "", attached |-> FALSE,
                         setRoot |-> TRUE, unmount |-> TRUE]
    /\ homeEffects[2] = [isMount |-> FALSE, awaiting |-> "", attached |-> FALSE,
                         setRoot |-> FALSE, unmount |-> FALSE]
    /\ ~rankingMounted
    /\ rankingEffects[1] = [isMount |-> FALSE, awaiting |-> "", setRows |-> FALSE]

====
